---- MODULE Spec2Model ----
(***************************************************************************)
(* The StarField background component of reality-check-web, in its four    *)
(* variants:                                                               *)
(*   "flatJs"   src/unnamed/part_004          (one flat twinkling layer)   *)
(*   "flatTs"   src/unnamed/part_003:63-126   (the same, with null guards) *)
(*   "drift"    src/reality-check-web/components/StarField.tsx             *)
(*   "parallax" src/unnamed/part_003:129-295  (three parallax layers)      *)
(*                                                                         *)
(* Numbers are fixed point: positions and radii in 1/1000 px (PX), alpha   *)
(* and twinkle rates in 1/10000 (AL), Math.random() outcomes as n/RandDen. *)
(*                                                                         *)
(* And the pages that send a check to the verification service:            *)
(*   "Page"     src/reality-check-web/app/page.tsx:39-461                  *)
(*   "HomePage" src/reality-check-web/app/page.tsx:489-948                 *)
(*   "Home"     src/unnamed/part_002:102-760                               *)
(***************************************************************************)
EXTENDS Integers, Sequences, FiniteSets, TLC

VARIABLES
    variant,            \* which StarField source file is running
    innerWidth,         \* window.innerWidth  (px)
    innerHeight,        \* window.innerHeight (px)
    devicePixelRatio,   \* window.devicePixelRatio
    canvas,             \* canvas.width/height (backing store), canvas.style.width/height
    ctx,                \* 2D context: transform scale, translation, save() stack
    listeners,          \* window "resize" listeners, in registration order (effect ids)
    rafQueue,           \* pending requestAnimationFrame callbacks: [id, eff]
    nextRafId,          \* the id the next requestAnimationFrame call returns
    eff,                \* the closure of every run of the effect: layers, t, animationFrameId
    mounts,             \* number of times the effect has run
    calls,              \* the canvas and field calls of the handler that ran last, in order
    last,               \* the last step: [op, eff, threw], op "mount", "frame", "resize" or "other"
    frames,             \* number of frame callbacks run so far
    probe,              \* one star followed over many frames (specification SpecStar)
    page                \* the state of the page component that is mounted (specification SpecForms)

vars == <<variant, innerWidth, innerHeight, devicePixelRatio, canvas, ctx,
          listeners, rafQueue, nextRafId, eff, mounts, calls, last, frames, probe,
          page>>

----------------------------------------------------------------------------
(* Bounds of the model *)

MaxStars == 2
MaxFrames == 2
MaxMounts == 2
RandDen == 100
MaxProbeFrames == 1300

(* Fixed-point scales *)
PX == 1000
AL == 10000

Variants == {"flatJs", "flatTs", "drift", "parallax"}
Viewports == {<<800, 600>>, <<1600, 1200>>}
Ratios == {1, 2}

(* Outcomes of Math.random(), as numerators over RandDen: the smallest value
   and the largest value below 1. *)
RandNums == {0, RandDen - 1}

(* The random source is a stream; a handler run draws one stream, and its
   k-th call of Math.random() returns the stream's k-th value.  The streams
   of the model alternate between two outcomes. *)
Streams == RandNums \X RandNums

Draw(s, k) == s[(k % 2) + 1]

(* Math.random() * k, for the outcome n/RandDen *)
(* a scaling that lets the largest outcome reach the end of the range, as
   Math.random() would if it could return 1 *)
MulInclusive(n, k) == (n * k) \div (RandDen - 1)

Mul(n, k) == (n * k) \div RandDen

----------------------------------------------------------------------------
(* Particle field generation *)

(* part_003:148-155.  The counts (170, 170, 140) are scaled to MaxStars;
   speedY in 1/1000 px per frame, parallax in tenths. *)
LAYER_CONFIGS ==
    << [count |-> MaxStars, speedY |-> 60,  parallax |-> 3,  blur |-> 1],
       [count |-> MaxStars, speedY |-> 100, parallax |-> 6,  blur |-> 2],
       [count |-> MaxStars, speedY |-> 180, parallax |-> 10, blur |-> 3] >>

(* part_003:184-185, in tenths *)
DepthFactor(i) == IF i = 1 THEN 7 ELSE IF i = 2 THEN 10 ELSE 14

(* part_003:186-194: one star of layer i; k is the number of Math.random()
   calls made before it. *)
NewStarParallax(i, width, height, s, k) ==
    [ x |-> Mul(Draw(s, k + 1), width * PX),
      y |-> Mul(Draw(s, k + 2), height * PX),
      r |-> ((Mul(Draw(s, k), 1200) + 300) * DepthFactor(i)) \div 10,
      alpha |-> Mul(Draw(s, k + 3), 8000) + 2000,
      twinkleSpeed |-> ((Mul(Draw(s, k + 4), 100) + 20) * DepthFactor(i)) \div 10 ]

(* a generation that replaces the list of the first layer only *)
CreateStarsFirstLayerOnly(layers, s) ==
    [ i \in 1 .. Len(layers) |->
        IF i > 1 THEN layers[i]
        ELSE [ layers[i] EXCEPT !.gen = s, !.stars =
                 [ j \in 1 .. LAYER_CONFIGS[i].count |->
                     NewStarParallax(i, innerWidth, innerHeight, s, 5 * (j - 1)) ] ] ]

(* part_003:174-197.  gen marks the call a list was made by (the draws of
   that call): it is not a field of the program's Layer. *)
CreateStarsParallax(layers, s) ==
    [ i \in 1 .. Len(layers) |->
        [ layers[i] EXCEPT !.gen = s, !.stars =
            [ j \in 1 .. LAYER_CONFIGS[i].count |->
                NewStarParallax(i, innerWidth, innerHeight, s,
                                5 * (MaxStars * (i - 1) + (j - 1))) ] ] ]

(* StarField.tsx:37-46 *)
NewStarDrift(width, height, s, k) ==
    [ x |-> Mul(Draw(s, k), width * PX),
      y |-> Mul(Draw(s, k + 1), height * PX),
      r |-> Mul(Draw(s, k + 2), 1400) + 300,
      alpha |-> Mul(Draw(s, k + 3), AL),
      delta |-> Mul(Draw(s, k + 4), 200) + 50,
      vx |-> Mul(Draw(s, k + 5), 40) - 20,
      vy |-> Mul(Draw(s, k + 6), 40) - 20 ]

(* StarField.tsx:15, scaled from 450 *)
STAR_COUNT == MaxStars

(* StarField.tsx:29-48 *)
CreateStarsDrift(s) ==
    << [ stars |-> [ j \in 1 .. STAR_COUNT |->
                       NewStarDrift(innerWidth, innerHeight, s, 7 * (j - 1)) ] ] >>

(* part_004:20-26 (r = random*1.5 + 0.2) and part_003:86-92 (r = random*1.4 +
   0.3): the star list of the flat variants, made once, from the canvas size. *)
NewStarFlat(v, cw, ch, s, k) ==
    [ x |-> Mul(Draw(s, k), cw * PX),
      y |-> Mul(Draw(s, k + 1), ch * PX),
      r |-> IF v = "flatJs" THEN Mul(Draw(s, k + 2), 1500) + 200
                            ELSE Mul(Draw(s, k + 2), 1400) + 300,
      alpha |-> Mul(Draw(s, k + 3), AL),
      delta |-> Mul(Draw(s, k + 4), 200) + 50 ]

(* part_004:20 (length 200) and part_003:86 (length 250), scaled to MaxStars *)
StarsFlat(v, cw, ch, s) ==
    << [ stars |-> [ j \in 1 .. MaxStars |-> NewStarFlat(v, cw, ch, s, 5 * (j - 1)) ] ] >>

----------------------------------------------------------------------------
(* Surface configuration *)

(* a canvas element before any script sizes it: 300 by 150, no CSS size *)
DefaultCanvas == [width |-> 300, height |-> 150, styleWidth |-> 0, styleHeight |-> 0]

(* the context state a canvas has after its width or height is assigned:
   identity transform, empty save() stack *)
DefaultCtx == [a |-> 1, tx |-> 0, ty |-> 0, shadowBlur |-> 0, stack |-> <<>>]

(* window.devicePixelRatio || 1 *)
Dpr == IF devicePixelRatio = 0 THEN 1 ELSE devicePixelRatio

(* the entries of calls a resize makes: the backing store is sized, the
   transform is set, the field is regenerated *)
SetSize(w, h) == [op |-> "setSize", layer |-> 0, w |-> w, h |-> h]
SetTransform(a) == [op |-> "setTransform", layer |-> 0, a |-> a]
CreateStarsCall == [op |-> "createStars", layer |-> 0]

(* part_004:12-15, part_003:77-81: resize() of the flat variants *)
ResizeFlat(st) ==
    [st EXCEPT !.canvas.width = innerWidth, !.canvas.height = innerHeight,
               !.ctx = DefaultCtx,
               !.calls = <<SetSize(innerWidth, innerHeight)>>]

(* StarField.tsx:50-64, part_003:199-212: resize() of the drifting and the
   parallax variant, for the effect e *)
ResizeHiDpi(st, e, s) ==
    [st EXCEPT !.canvas = [width |-> innerWidth * Dpr, height |-> innerHeight * Dpr,
                           styleWidth |-> innerWidth, styleHeight |-> innerHeight],
               !.ctx = [DefaultCtx EXCEPT !.a = Dpr],
               !.calls = <<SetSize(innerWidth * Dpr, innerHeight * Dpr),
                           SetTransform(Dpr), CreateStarsCall>>,
               !.eff[e].layers = IF variant = "parallax"
                                 THEN CreateStarsParallax(st.eff[e].layers, s)
                                 ELSE CreateStarsDrift(s)]

(* a resize that restarts the loop: it drops the pending frame of e *)
ResizeStoppingLoop(st, e, s) ==
    LET r == IF variant \in {"flatJs", "flatTs"} THEN ResizeFlat(st) ELSE ResizeHiDpi(st, e, s)
    IN  [r EXCEPT !.rafQueue = {cb \in @ : cb.eff # e}]

(* a resize that scales the transform it finds instead of setting it *)
ResizeCompounding(st, e, s) ==
    LET r == IF variant \in {"flatJs", "flatTs"} THEN ResizeFlat(st) ELSE ResizeHiDpi(st, e, s)
    IN  [r EXCEPT !.ctx.a = st.ctx.a * Dpr]

(* a resize that restarts the clock of e *)
ResizeResettingClock(st, e, s) ==
    LET r == IF variant \in {"flatJs", "flatTs"} THEN ResizeFlat(st) ELSE ResizeHiDpi(st, e, s)
    IN  [r EXCEPT !.eff[e].t = 0]

Resize(st, e, s) ==
    IF variant \in {"flatJs", "flatTs"} THEN ResizeFlat(st) ELSE ResizeHiDpi(st, e, s)

----------------------------------------------------------------------------
(* The 2D context calls the frame makes *)

Save(c) ==
    [c EXCEPT !.stack = Append(@, [a |-> c.a, tx |-> c.tx, ty |-> c.ty,
                                   shadowBlur |-> c.shadowBlur])]

(* a restore() that leaves the context as it is *)
RestoreNothing(c) == c

Restore(c) ==
    IF c.stack = <<>> THEN c
    ELSE LET top == c.stack[Len(c.stack)]
         IN  [a |-> top.a, tx |-> top.tx, ty |-> top.ty, shadowBlur |-> top.shadowBlur,
              stack |-> SubSeq(c.stack, 1, Len(c.stack) - 1)]

Translate(c, dx, dy) == [c EXCEPT !.tx = @ + dx, !.ty = @ + dy]

(* beginPath / arc / fillStyle / fill for one star of layer i, under the
   context's current translation *)
Arc(c, i, star) ==
    [op |-> "arc", layer |-> i, x |-> star.x, y |-> star.y, r |-> star.r,
     alpha |-> star.alpha, tx |-> c.tx, ty |-> c.ty]

(* clearRect(0, 0, w, h) or fillRect(0, 0, w, h) over the whole surface *)
Background(c, name, w, h) ==
    [op |-> name, layer |-> 0, w |-> w, h |-> h, tx |-> c.tx, ty |-> c.ty]

----------------------------------------------------------------------------
(* The per-star update of a frame *)

(* part_004:32-33, part_003:100-101, StarField.tsx:80-81 *)
Flicker(star) ==
    LET a == star.alpha + star.delta
    IN  [star EXCEPT !.alpha = a,
                     !.delta = IF a <= 0 \/ a >= AL THEN -star.delta ELSE star.delta]

(* no wrap at the left and top edges *)
WrapLowNever(v, max) == v

(* StarField.tsx:84-91; w and h in 1/1000 px *)
WrapLow(v, max) == IF v < 0 THEN max ELSE v
WrapHigh(v, max) == IF v > max THEN 0 ELSE v

StepDrift(star, width, height) ==
    LET f == Flicker(star)
    IN  [f EXCEPT !.x = WrapHigh(WrapLow(star.x + star.vx, width * PX), width * PX),
                  !.y = WrapHigh(WrapLow(star.y + star.vy, height * PX), height * PX)]

(* a fall that never wraps *)
FallNoWrap(star, speedY, width, height, n) == [star EXCEPT !.y = @ + speedY]

(* a fall that wraps at the bottom edge itself, to the top edge, and keeps x *)
FallToTopEdge(star, speedY, width, height, n) ==
    LET y == star.y + speedY
    IN  IF y > height * PX THEN [star EXCEPT !.y = 0] ELSE [star EXCEPT !.y = y]

(* part_003:253-257: fall and wrap; n is the outcome of Math.random() *)
Fall(star, speedY, width, height, n) ==
    LET y == star.y + speedY
    IN  IF y > height * PX + 10 * PX
        THEN [star EXCEPT !.y = -10 * PX, !.x = Mul(n, width * PX)]
        ELSE [star EXCEPT !.y = y]

(* a twinkle that stops at the edge of the band instead of turning *)
TwinkleClampAndStop(star) ==
    LET a == star.alpha + star.twinkleSpeed
    IN  IF a > AL THEN [star EXCEPT !.alpha = AL, !.twinkleSpeed = 0]
        ELSE IF a < 1500 THEN [star EXCEPT !.alpha = 1500, !.twinkleSpeed = 0]
        ELSE [star EXCEPT !.alpha = a]

(* part_003:260-263 *)
Twinkle(star) ==
    LET a == star.alpha + star.twinkleSpeed
    IN  [star EXCEPT !.alpha = a,
                     !.twinkleSpeed = IF a > AL \/ a < 1500 THEN -star.twinkleSpeed
                                                            ELSE star.twinkleSpeed]

(* a step in which the star also shrinks as it falls *)
StepParallaxShrinking(star, speedY, width, height, n) ==
    [Twinkle(Fall(star, speedY, width, height, n)) EXCEPT !.r = @ - 300]

StepParallax(star, speedY, width, height, n) ==
    Twinkle(Fall(star, speedY, width, height, n))

(* part_003:227-228: Math.sin(t * 0.0001) * 25 and Math.cos(t * 0.00008) * 18,
   in 1/1000 px, by their Taylor expansions (exact to the unit while
   t <= 16 * 5, which the frame bound keeps) *)
BaseParallaxX(t) == (25000 * t) \div 10000
BaseParallaxY(t) == 18000 - (576 * t * t + 5000000) \div 10000000

----------------------------------------------------------------------------
(* animate().  st gathers what a handler reads and writes: canvas, ctx,
   calls, eff, rafQueue, nextRafId, threw.  fail is where a drawing call of
   this run throws: "none", "clear" (the background call) or "paint" (the
   first star's arc/fill, after that star was updated). *)

FailPoints == {"none", "clear", "paint"}

(* requestAnimationFrame(animate), its id kept where the variant keeps it:
   part_004:41 and part_003:109 drop it, StarField.tsx:99 and part_003:274
   assign animationFrameId *)
(* a request made twice *)
RequestFrameTwice(st, e) ==
    [st EXCEPT !.rafQueue = @ \cup {[id |-> st.nextRafId, eff |-> e],
                                    [id |-> st.nextRafId + 1, eff |-> e]},
               !.nextRafId = @ + 2,
               !.eff[e].animationFrameId = st.nextRafId + 1]

RequestFrame(st, e) ==
    [st EXCEPT !.rafQueue = @ \cup {[id |-> st.nextRafId, eff |-> e]},
               !.nextRafId = @ + 1,
               !.eff[e].animationFrameId =
                   IF variant \in {"drift", "parallax"} THEN st.nextRafId ELSE @]

(* part_004:28-42, part_003:94-110 *)
AnimateFlat(st, e, fail) ==
    LET stars == st.eff[e].layers[1].stars
        done == IF fail = "paint" THEN 1 ELSE Len(stars)
        stepped == [j \in 1 .. Len(stars) |->
                      IF j <= done THEN Flicker(stars[j]) ELSE stars[j]]
        bg == Background(st.ctx, "clearRect", st.canvas.width, st.canvas.height)
    IN  IF fail = "clear" THEN [st EXCEPT !.threw = TRUE]
        ELSE IF fail = "paint"
        THEN [st EXCEPT !.eff[e].layers[1].stars = stepped, !.calls = <<bg>>,
                        !.threw = TRUE]
        ELSE RequestFrame(
               [st EXCEPT !.eff[e].layers[1].stars = stepped,
                          !.calls = <<bg>> \o [j \in 1 .. Len(stars) |->
                                                  Arc(st.ctx, 1, stepped[j])]], e)

(* a frame that clears the surface after it painted the stars *)
AnimateDriftClearLast(st, e, fail) ==
    LET stars == st.eff[e].layers[1].stars
        stepped == [j \in 1 .. Len(stars) |-> StepDrift(stars[j], innerWidth, innerHeight)]
    IN  RequestFrame(
          [st EXCEPT !.eff[e].layers[1].stars = stepped,
                     !.calls = [j \in 1 .. Len(stars) |-> Arc(st.ctx, 1, stepped[j])]
                               \o <<Background(st.ctx, "clearRect", innerWidth,
                                               innerHeight)>>], e)

(* StarField.tsx:70-100 *)
AnimateDrift(st, e, fail) ==
    LET width == innerWidth
        height == innerHeight
        stars == st.eff[e].layers[1].stars
        done == IF fail = "paint" THEN 1 ELSE Len(stars)
        stepped == [j \in 1 .. Len(stars) |->
                      IF j <= done THEN StepDrift(stars[j], width, height) ELSE stars[j]]
        bg == Background(st.ctx, "clearRect", width, height)
    IN  IF fail = "clear" THEN [st EXCEPT !.threw = TRUE]
        ELSE IF fail = "paint"
        THEN [st EXCEPT !.eff[e].layers[1].stars = stepped, !.calls = <<bg>>,
                        !.threw = TRUE]
        ELSE RequestFrame(
               [st EXCEPT !.eff[e].layers[1].stars = stepped,
                          !.calls = <<bg>> \o [j \in 1 .. Len(stars) |->
                                                  Arc(st.ctx, 1, stepped[j])]], e)

(* part_003:238-272, one layer: save, translate, glow, the stars, restore *)
PaintLayer(st, e, i, bx, by, s, fail) ==
    LET layer == st.eff[e].layers[i]
        c == [Translate(Save(st.ctx), (bx * layer.parallax) \div 10,
                                      (by * layer.parallax) \div 10)
                EXCEPT !.shadowBlur = layer.blur]
        stops == fail = "paint" /\ i = 1
        done == IF stops THEN 1 ELSE Len(layer.stars)
        stepped == [j \in 1 .. Len(layer.stars) |->
                      IF j <= done
                      THEN StepParallax(layer.stars[j], layer.speedY, innerWidth,
                                        innerHeight, Draw(s, MaxStars * (i - 1) + j - 1))
                      ELSE layer.stars[j]]
    IN  IF stops /\ Len(layer.stars) > 0
        THEN [st EXCEPT !.eff[e].layers[i].stars = stepped, !.ctx = c, !.threw = TRUE]
        ELSE [st EXCEPT !.eff[e].layers[i].stars = stepped,
                        !.ctx = Restore(c),
                        !.calls = @ \o [j \in 1 .. Len(layer.stars) |->
                                           Arc(c, i, stepped[j])]]

(* the layers painted from the last of the list to the first *)
RECURSIVE PaintLayersFrontFirst(_, _, _, _, _, _, _)
PaintLayersFrontFirst(st, e, i, bx, by, s, fail) ==
    IF i > Len(st.eff[e].layers) \/ st.threw THEN st
    ELSE PaintLayersFrontFirst(
             PaintLayer(st, e, Len(st.eff[e].layers) + 1 - i, bx, by, s, fail),
             e, i + 1, bx, by, s, fail)

RECURSIVE PaintLayers(_, _, _, _, _, _, _)
PaintLayers(st, e, i, bx, by, s, fail) ==
    IF i > Len(st.eff[e].layers) \/ st.threw THEN st
    ELSE PaintLayers(PaintLayer(st, e, i, bx, by, s, fail), e, i + 1, bx, by, s, fail)

(* part_003:219-275 *)
AnimateParallax(st, e, s, fail) ==
    LET t == st.eff[e].t + 16
        st1 == [st EXCEPT !.eff[e].t = t]
        bg == Background(st.ctx, "fillRect", innerWidth, innerHeight)
        st2 == PaintLayers([st1 EXCEPT !.calls = <<bg>>], e, 1,
                           BaseParallaxX(t), BaseParallaxY(t), s, fail)
    IN  IF fail = "clear" THEN [st1 EXCEPT !.threw = TRUE]
        ELSE IF st2.threw THEN st2
        ELSE RequestFrame(st2, e)

Animate(st, e, s, fail) ==
    IF variant = "parallax" THEN AnimateParallax(st, e, s, fail)
    ELSE IF variant = "drift" THEN AnimateDrift(st, e, fail)
    ELSE AnimateFlat(st, e, fail)

----------------------------------------------------------------------------
(* The effect (mount) and its cleanup *)

BlankEffect == [status |-> "none", layers |-> <<>>, t |-> 0, animationFrameId |-> 0]

(* part_004:8-47.  No null guards: a missing canvas makes canvas.getContext
   throw; a missing context makes the first animate() throw at ctx.clearRect,
   after the listener was registered and the canvas sized. *)
EffectFlatJs(st, e, s, surface) ==
    IF surface = "noCanvas"
    THEN [st EXCEPT !.threw = TRUE]
    ELSE LET st1 == ResizeFlat([st EXCEPT !.listeners = Append(@, e)])
             st2 == [st1 EXCEPT !.eff[e].layers =
                        StarsFlat("flatJs", st1.canvas.width, st1.canvas.height, s)]
             st3 == AnimateFlat(st2, e, IF surface = "noCtx" THEN "clear" ELSE "none")
         IN  [st3 EXCEPT !.eff[e].status = IF st3.threw THEN "threw" ELSE "active"]

(* part_003:70-117 *)
EffectFlatTs(st, e, s, surface) ==
    IF surface # "ok"
    THEN st
    ELSE LET st1 == [ResizeFlat(st) EXCEPT !.listeners = Append(@, e)]
             st2 == [st1 EXCEPT !.eff[e].layers =
                        StarsFlat("flatTs", st1.canvas.width, st1.canvas.height, s)]
         IN  [AnimateFlat(st2, e, "none") EXCEPT !.eff[e].status = "active"]

(* StarField.tsx:20-114 *)
EffectDrift(st, e, s, surface) ==
    IF surface # "ok"
    THEN st
    ELSE LET st1 == ResizeHiDpi(st, e, s)
             st2 == RequestFrame(st1, e)
         IN  [st2 EXCEPT !.listeners = Append(@, e), !.eff[e].status = "active"]

(* an effect that leaves the first generation to the first resize event *)
EffectParallaxWithoutResize(st, e, s, surface) ==
    IF surface # "ok"
    THEN st
    ELSE LET st0 == [st EXCEPT !.eff[e].t = 0, !.eff[e].layers =
                        [i \in 1 .. Len(LAYER_CONFIGS) |->
                           [stars |-> <<>>, gen |-> <<>>,
                            speedY |-> LAYER_CONFIGS[i].speedY,
                            parallax |-> LAYER_CONFIGS[i].parallax,
                            blur |-> LAYER_CONFIGS[i].blur]]]
         IN  [RequestFrame(st0, e) EXCEPT !.listeners = Append(@, e),
                                          !.eff[e].status = "active"]

(* part_003:160-286 *)
EffectParallax(st, e, s, surface) ==
    IF surface # "ok"
    THEN st
    ELSE LET st0 == [st EXCEPT !.eff[e].layers =
                        [i \in 1 .. Len(LAYER_CONFIGS) |->
                           [stars |-> <<>>, gen |-> <<>>,
                            speedY |-> LAYER_CONFIGS[i].speedY,
                            parallax |-> LAYER_CONFIGS[i].parallax,
                            blur |-> LAYER_CONFIGS[i].blur]]]
             st1 == [ResizeHiDpi(st0, e, s) EXCEPT !.eff[e].t = 0]
             st2 == RequestFrame(st1, e)
         IN  [st2 EXCEPT !.listeners = Append(@, e), !.eff[e].status = "active"]

Effect(st, e, s, surface) ==
    CASE variant = "flatJs" -> EffectFlatJs(st, e, s, surface)
      [] variant = "flatTs" -> EffectFlatTs(st, e, s, surface)
      [] variant = "drift" -> EffectDrift(st, e, s, surface)
      [] OTHER -> EffectParallax(st, e, s, surface)

RemoveListener(ls, e) == SelectSeq(ls, LAMBDA x : x # e)

(* cancelAnimationFrame(id) *)
CancelFrame(q, id) == {cb \in q : cb.id # id}

(* part_004:46 and part_003:114-116 remove the listener only; StarField.tsx:
   110-113 and part_003:282-285 also cancel animationFrameId *)
CleanupEffect(st, e) ==
    [st EXCEPT !.listeners = RemoveListener(@, e),
               !.rafQueue = IF variant \in {"drift", "parallax"}
                            THEN CancelFrame(@, st.eff[e].animationFrameId) ELSE @,
               !.eff[e].status = "cleaned"]

(* dispatch of one resize event: every registered listener runs, in order *)
RECURSIVE Dispatch(_, _, _)
Dispatch(st, ls, s) ==
    IF ls = <<>> THEN st ELSE Dispatch(Resize(st, Head(ls), s), Tail(ls), s)

----------------------------------------------------------------------------
(* Actions *)

(* the pending callbacks in the order they were requested (ascending id) *)
FirstOf(q) == CHOOSE cb \in q : \A o \in q : cb.id <= o.id
LastOf(q) == CHOOSE cb \in q : \A o \in q : cb.id >= o.id

RECURSIVE InOrder(_)
InOrder(q) == IF q = {} THEN <<>> ELSE <<FirstOf(q)>> \o InOrder(q \ {FirstOf(q)})

RECURSIVE RunCallbacks(_, _, _, _, _)
RunCallbacks(st, cbs, s, fail, victim) ==
    IF cbs = <<>> THEN st
    ELSE LET cb == Head(cbs)
             r == Animate([st EXCEPT !.threw = FALSE], cb.eff, s,
                          IF cb = victim THEN fail ELSE "none")
         IN  RunCallbacks([r EXCEPT !.threw = r.threw \/ st.threw], Tail(cbs),
                          s, fail, victim)

(* A closure that no listener and no pending callback refers to is garbage:
   its stars and clock are dropped (animationFrameId stays, the cleanup
   function reads it). *)
Reachable(st, e) ==
    \/ \E k \in 1 .. Len(st.listeners) : st.listeners[k] = e
    \/ \E cb \in st.rafQueue : cb.eff = e

Collect(st) ==
    [e \in DOMAIN st.eff |->
       IF Reachable(st, e) THEN st.eff[e]
       ELSE [st.eff[e] EXCEPT !.layers = <<>>, !.t = 0]]

(* Math.random() is called in a frame by the parallax variant only *)
FrameStreams == IF variant = "parallax" THEN Streams ELSE {<<0, 0>>}

(* ... and in a resize by the drifting and the parallax variant only *)
ResizeStreams == IF variant \in {"drift", "parallax"} THEN Streams ELSE {<<0, 0>>}

St == [canvas |-> canvas, ctx |-> ctx, calls |-> <<>>, eff |-> eff,
       rafQueue |-> rafQueue, nextRafId |-> nextRafId, listeners |-> listeners,
       threw |-> FALSE, surface |-> "ok"]

Other == [op |-> "other", eff |-> 0, threw |-> FALSE, surface |-> "ok", again |-> FALSE]

(* the surface is as resize() of the drifting and the parallax variant
   leaves it for the present viewport and ratio: the arguments of the last
   run of resize() are the present ones *)
SurfaceCurrent ==
    /\ canvas = [width |-> innerWidth * Dpr, height |-> innerHeight * Dpr,
                 styleWidth |-> innerWidth, styleHeight |-> innerHeight]
    /\ ctx.a = Dpr

Commit(st, op, e) ==
    /\ canvas' = st.canvas
    /\ ctx' = st.ctx
    /\ calls' = st.calls
    /\ eff' = Collect(st)
    /\ rafQueue' = st.rafQueue
    /\ nextRafId' = st.nextRafId
    /\ listeners' = st.listeners
    /\ last' = IF op = "other" THEN Other
               ELSE [op |-> op, eff |-> e, threw |-> st.threw, surface |-> st.surface,
                     again |-> op = "resize" /\ SurfaceCurrent]


NoProbe == [on |-> FALSE]

NoPage == [component |-> "none"]

Init ==
    /\ variant \in Variants
    /\ \E vp \in Viewports : innerWidth = vp[1] /\ innerHeight = vp[2]
    /\ devicePixelRatio \in Ratios
    /\ canvas = DefaultCanvas
    /\ ctx = DefaultCtx
    /\ listeners = <<>>
    /\ rafQueue = {}
    /\ nextRafId = 1
    /\ eff = [e \in 1 .. MaxMounts |-> BlankEffect]
    /\ mounts = 0
    /\ calls = <<>>
    /\ last = Other
    /\ frames = 0
    /\ page = NoPage
    /\ probe = NoProbe

(* what the effect finds: canvasRef.current is null ("noCanvas"),
   getContext("2d") returns null ("noCtx"), or both are there *)
Surfaces == {"ok", "noCanvas", "noCtx"}

(* React mounts the component: the effect runs.  A run that returns or throws
   before it registers anything leaves no closure behind and takes no slot
   of eff. *)
Mount ==
    /\ mounts < MaxMounts
    /\ mounts > 0 => eff[mounts].status # "active"
    /\ \E s \in Streams, surface \in Surfaces :
         LET st == Effect([St EXCEPT !.surface = surface], mounts + 1, s, surface)
             kept == st.eff[mounts + 1].status # "none"
         IN  /\ Commit(st, "mount", IF kept THEN mounts + 1 ELSE 0)
             /\ mounts' = IF kept THEN mounts + 1 ELSE mounts
    /\ UNCHANGED <<variant, innerWidth, innerHeight, devicePixelRatio, frames, probe, page>>

(* the cleanup the effect returned runs (React runs it once, at unmount; a
   second run is a caller calling stop() again) *)
Cleanup ==
    /\ \E e \in 1 .. mounts :
         /\ eff[e].status \in {"active", "cleaned"}
         /\ Commit(CleanupEffect(St, e), "other", e)
    /\ UNCHANGED <<variant, innerWidth, innerHeight, devicePixelRatio,
                   mounts, frames, probe, page>>

(* the browser runs the animation frame callbacks: every callback that was
   pending when the frame began, in the order of the requests; a callback
   that throws does not keep the others from running.  victim is the callback
   whose drawing call fails at fail. *)
Frame ==
    /\ frames < MaxFrames
    /\ rafQueue # {}
    /\ \E s \in FrameStreams, fail \in FailPoints :
       \E victim \in IF fail = "none" THEN {FirstOf(rafQueue)} ELSE rafQueue :
         LET st == RunCallbacks([St EXCEPT !.rafQueue = {}], InOrder(rafQueue),
                                s, fail, victim)
         IN  Commit(st, "frame", IF st.threw THEN victim.eff ELSE LastOf(rafQueue).eff)
    /\ frames' = frames + 1
    /\ UNCHANGED <<variant, innerWidth, innerHeight, devicePixelRatio, mounts, probe, page>>

(* the browser dispatches a resize event to the registered listeners *)
ResizeEvent ==
    /\ listeners # <<>>
    /\ \E s \in ResizeStreams :
         Commit(Dispatch(St, listeners, s), "resize", Head(listeners))
    /\ UNCHANGED <<variant, innerWidth, innerHeight, devicePixelRatio,
                   mounts, frames, probe, page>>

(* the window is resized *)
SetViewport ==
    /\ \E vp \in Viewports :
         /\ vp # <<innerWidth, innerHeight>>
         /\ innerWidth' = vp[1]
         /\ innerHeight' = vp[2]
    /\ last' = Other
    /\ calls' = <<>>
    /\ UNCHANGED <<variant, devicePixelRatio, canvas, ctx, listeners, rafQueue,
                   nextRafId, eff, mounts, frames, probe, page>>

(* the window moves to a display of another density, or the page is zoomed *)
SetRatio ==
    /\ \E d \in Ratios : d # devicePixelRatio /\ devicePixelRatio' = d
    /\ last' = Other
    /\ calls' = <<>>
    /\ UNCHANGED <<variant, innerWidth, innerHeight, canvas, ctx, listeners,
                   rafQueue, nextRafId, eff, mounts, frames, probe, page>>

Next ==
    \/ Mount
    \/ Cleanup
    \/ Frame
    \/ ResizeEvent
    \/ SetViewport
    \/ SetRatio

Spec == Init /\ [][Next]_vars

----------------------------------------------------------------------------
(* The variants that regenerate the field on resize and cancel the frame on
   cleanup: StarField.tsx and part_003:129-295 *)

InitRegen == Init /\ variant \in {"drift", "parallax"}

SpecRegen == InitRegen /\ [][Next]_vars

----------------------------------------------------------------------------
(* The same variants in a window that starts with no area (a hidden or
   collapsed frame reports innerWidth or innerHeight 0) *)

DegenerateViewports == {<<0, 600>>, <<800, 0>>, <<0, 0>>}

InitDegenerate ==
    /\ variant \in {"drift", "parallax"}
    /\ \E vp \in DegenerateViewports : innerWidth = vp[1] /\ innerHeight = vp[2]
    /\ devicePixelRatio \in Ratios
    /\ canvas = DefaultCanvas
    /\ ctx = DefaultCtx
    /\ listeners = <<>>
    /\ rafQueue = {}
    /\ nextRafId = 1
    /\ eff = [e \in 1 .. MaxMounts |-> BlankEffect]
    /\ mounts = 0
    /\ calls = <<>>
    /\ last = Other
    /\ frames = 0
    /\ page = NoPage
    /\ probe = NoProbe

SpecDegenerate == InitDegenerate /\ [][Next]_vars

----------------------------------------------------------------------------
(* One star of the parallax variant followed over many frames, the viewport
   fixed: the frame's per-star update (part_003:251-263) applied to a star as
   createStars makes it. *)

ProbeViewports == {<<100, 40>>, <<100, 100>>}
ProbeNums == {0, RandDen \div 2, RandDen - 1}

InitStar ==
    /\ variant = "parallax"
    /\ innerWidth = 800
    /\ innerHeight = 600
    /\ devicePixelRatio = 1
    /\ canvas = DefaultCanvas
    /\ ctx = DefaultCtx
    /\ listeners = <<>>
    /\ rafQueue = {}
    /\ nextRafId = 1
    /\ eff = [e \in 1 .. MaxMounts |-> BlankEffect]
    /\ mounts = 0
    /\ calls = <<>>
    /\ last = Other
    /\ frames = 0
    /\ page = NoPage
    /\ \E i \in 1 .. Len(LAYER_CONFIGS), vp \in ProbeViewports, s \in ProbeNums \X ProbeNums :
         probe = [on |-> TRUE, layer |-> i, width |-> vp[1], height |-> vp[2],
                  star |-> NewStarParallax(i, vp[1], vp[2], s, 0), n |-> 0, wraps |-> 0]

ProbeFrame ==
    /\ probe.on
    /\ probe.n < MaxProbeFrames
    /\ \E n \in RandNums :
         LET next == StepParallax(probe.star, LAYER_CONFIGS[probe.layer].speedY,
                                  probe.width, probe.height, n)
         IN  probe' = [probe EXCEPT !.star = next, !.n = @ + 1,
                                    !.wraps = IF next.y < probe.star.y THEN @ + 1 ELSE @]
    /\ UNCHANGED <<variant, innerWidth, innerHeight, devicePixelRatio, canvas, ctx,
                   listeners, rafQueue, nextRafId, eff, mounts, calls, last, frames, page>>

NextStar == ProbeFrame

SpecStar == InitStar /\ [][NextStar]_vars

----------------------------------------------------------------------------
(* The brightness of one star followed for as long as frames run: the
   brightness update of the frame (part_003:260-263, StarField.tsx:80-81)
   applied again and again to a star as createStars makes it.  The update
   reads and writes alpha and the rate only, so the star stays where it is;
   flipped tells whether the last frame reversed the rate. *)

Rate(star) == IF variant = "parallax" THEN star.twinkleSpeed ELSE star.delta

InitTwinkle ==
    /\ variant \in {"drift", "parallax"}
    /\ innerWidth = 800
    /\ innerHeight = 600
    /\ devicePixelRatio = 1
    /\ canvas = DefaultCanvas
    /\ ctx = DefaultCtx
    /\ listeners = <<>>
    /\ rafQueue = {}
    /\ nextRafId = 1
    /\ eff = [e \in 1 .. MaxMounts |-> BlankEffect]
    /\ mounts = 0
    /\ calls = <<>>
    /\ last = Other
    /\ frames = 0
    /\ page = NoPage
    /\ \E i \in 1 .. Len(LAYER_CONFIGS), s \in ProbeNums \X ProbeNums :
         probe = [on |-> TRUE, layer |-> IF variant = "parallax" THEN i ELSE 1,
                  star |-> IF variant = "parallax"
                           THEN NewStarParallax(i, innerWidth, innerHeight, s, 0)
                           ELSE NewStarDrift(innerWidth, innerHeight, s, 0),
                  flipped |-> FALSE]

TwinkleFrame ==
    /\ probe.on
    /\ LET next == IF variant = "parallax" THEN Twinkle(probe.star)
                                           ELSE Flicker(probe.star)
       IN  probe' = [probe EXCEPT !.star = next,
                                  !.flipped = Rate(next) # Rate(probe.star)]
    /\ UNCHANGED <<variant, innerWidth, innerHeight, devicePixelRatio, canvas, ctx,
                   listeners, rafQueue, nextRafId, eff, mounts, calls, last, frames, page>>

NextTwinkle == TwinkleFrame

(* frames keep running: the loop requests the next frame at the end of each *)
SpecTwinkle == InitTwinkle /\ [][NextTwinkle]_vars /\ WF_vars(TwinkleFrame)

----------------------------------------------------------------------------
(* Helpers of the properties *)

Effects == 1 .. MaxMounts

(* every star the closure of effect e holds, with its layer *)
StarsOf(e) ==
    UNION { {[layer |-> i, star |-> eff[e].layers[i].stars[j]] :
                j \in 1 .. Len(eff[e].layers[i].stars)} :
            i \in 1 .. Len(eff[e].layers) }

(* the layout size of the canvas: canvas.style.width/height where the code
   sets them, else the intrinsic size of the element (its width and height
   attributes) *)
CssWidth == IF canvas.styleWidth = 0 THEN canvas.width ELSE canvas.styleWidth
CssHeight == IF canvas.styleHeight = 0 THEN canvas.height ELSE canvas.styleHeight

(* the number of stars layer i of the running variant is configured with *)
ConfiguredCount(i) == IF variant = "parallax" THEN LAYER_CONFIGS[i].count ELSE MaxStars

InExtents(star) ==
    /\ 0 <= star.x /\ star.x < innerWidth * PX
    /\ 0 <= star.y /\ star.y < innerHeight * PX

Pending(e) == {cb \in rafQueue : cb.eff = e}

Listening(e) == \E k \in 1 .. Len(listeners) : listeners[k] = e

(* the band the frame step tests: part_003:261 (0.15 and 1), the others 0 and 1 *)
MinAlpha == IF variant = "parallax" THEN 1500 ELSE 0
MaxAlpha == AL

Arcs == {k \in 1 .. Len(calls) : calls[k].op = "arc"}

----------------------------------------------------------------------------
(* C1: once the cleanup of an effect has run, no frame callback of that
   effect is pending (so none runs again), in every variant, whether or not
   a frame had run and however often the cleanup runs. *)
C1_NoFramePendingAfterCleanup ==
    \A e \in Effects : eff[e].status = "cleaned" => Pending(e) = {}

(* C2: every star's alpha is inside the band the frame step tests, in every
   state, and so is every alpha a frame paints with. *)
C2_AlphaInBand ==
    /\ \A e \in Effects : \A p \in StarsOf(e) :
         MinAlpha <= p.star.alpha /\ p.star.alpha <= MaxAlpha
    /\ \A k \in Arcs : MinAlpha <= calls[k].alpha /\ calls[k].alpha <= MaxAlpha

(* C3: when a frame has painted, the backing store is the viewport the frame
   used times the current device pixel ratio, and the transform scale is
   that ratio. *)
C3_FrameSurfaceFresh ==
    (last.op = "frame" /\ calls # <<>>) =>
        /\ canvas.width = calls[1].w * devicePixelRatio
        /\ canvas.height = calls[1].h * devicePixelRatio
        /\ ctx.a = devicePixelRatio

(* C4: after the resize handler ran with viewport (w, h) and ratio d, the
   backing store is w*d by h*d, the CSS size w by h, the transform scale d,
   in every variant. *)
C4_ResizeConfiguresSurface ==
    (last.op = "resize" /\ eff[last.eff].status = "active") =>
        /\ canvas.width = innerWidth * devicePixelRatio
        /\ canvas.height = innerHeight * devicePixelRatio
        /\ CssWidth = innerWidth
        /\ CssHeight = innerHeight
        /\ ctx.a = devicePixelRatio

(* C5: a frame callback in which a drawing step threw has not let the
   failure out and has scheduled its successor. *)
C5_FailedFrameReschedules ==
    (last.op = "frame" /\ last.threw) => Pending(last.eff) # {}

(* C6 as claimed: after n frames at a fixed height every star of a layer has
   wrapped at least floor(n * speedY / height) times. *)
C6_WrapsAtLeastFloor ==
    probe.on =>
        probe.wraps >= (probe.n * LAYER_CONFIGS[probe.layer].speedY)
                           \div (probe.height * PX)

(* C6, amended: a star wraps only once it is more than 10 px below the
   bottom and re-enters 10 px above the top, so after n frames it has
   wrapped at least floor(n * speedY / (height + 20 + speedY)) times. *)
C6_WrapsAtLeastFloorWithMargin ==
    probe.on =>
        probe.wraps >= (probe.n * LAYER_CONFIGS[probe.layer].speedY)
                           \div (probe.height * PX + 20 * PX
                                 + LAYER_CONFIGS[probe.layer].speedY)

C6_Witness ==
    /\ probe.on
    /\ probe.wraps >= 2
    /\ (probe.n * LAYER_CONFIGS[probe.layer].speedY)
           \div (probe.height * PX + 20 * PX + LAYER_CONFIGS[probe.layer].speedY) >= 2

(* C7: a resize event sizes the surface, then sets the transform, then
   regenerates the field, and leaves the frame callbacks as they were: the
   same callbacks pending, none requested, the effect still active. *)
C7_ResizeKeepsLoop ==
    [][last'.op = "resize" =>
          /\ rafQueue' = rafQueue
          /\ nextRafId' = nextRafId
          /\ \A e \in Effects : eff'[e].status = eff[e].status
                                /\ eff'[e].animationFrameId = eff[e].animationFrameId
          /\ Len(calls') = 3
          /\ calls'[1].op = "setSize"
          /\ calls'[2].op = "setTransform"
          /\ calls'[3].op = "createStars"]_vars

C7_Witness ==
    /\ last.op = "resize"
    /\ frames > 0
    /\ eff[last.eff].status = "active"
    /\ Pending(last.eff) # {}

(* C8: in every variant every layer of a running effect holds its configured
   number of stars, and right after a resize event every star of a listening
   effect lies inside the new viewport. *)
C8_ResizeReplacesField ==
    /\ \A e \in Effects : \A i \in 1 .. Len(eff[e].layers) :
         Len(eff[e].layers[i].stars) = ConfiguredCount(i)
    /\ last.op = "resize" =>
         \A e \in Effects : (Listening(e) /\ eff[e].status = "active") =>
             \A p \in StarsOf(e) : InExtents(p.star)

(* C9: right after the field was generated (at mount, at a resize) every
   layer holds its configured count of stars, each with 0 <= x < width,
   0 <= y < height and r > 0. *)
C9_GeneratedInExtents ==
    (last.op \in {"mount", "resize"} /\ last.eff # 0) =>
        /\ eff[last.eff].layers # <<>>
        /\ \A i \in 1 .. Len(eff[last.eff].layers) :
             Len(eff[last.eff].layers[i].stars) = ConfiguredCount(i)
        /\ \A p \in StarsOf(last.eff) : InExtents(p.star) /\ p.star.r > 0

C9_Witness ==
    /\ last.op = "resize"
    /\ innerWidth = 800
    /\ innerHeight = 600
    /\ Cardinality(StarsOf(last.eff)) >= 2
    /\ \E p \in StarsOf(last.eff) : p.star.x = Mul(RandDen - 1, 800 * PX)
    /\ \E p \in StarsOf(last.eff) : p.star.x = 0

(* C10: in a frame of the parallax variant the stars are painted layer by
   layer in the order of the layer list, and that order is ascending
   parallax coefficient (0.3, 0.6, 1.0), whatever resizes came before. *)
C10_PaintedBackToFront ==
    variant = "parallax" =>
        /\ \A k1, k2 \in Arcs : k1 < k2 => calls[k1].layer <= calls[k2].layer
        /\ \A e \in Effects : \A i, j \in 1 .. Len(eff[e].layers) :
             i < j => eff[e].layers[i].parallax < eff[e].layers[j].parallax
        /\ \A e \in Effects : eff[e].layers # <<>> =>
             <<eff[e].layers[1].parallax, eff[e].layers[2].parallax,
               eff[e].layers[3].parallax>> = <<3, 6, 10>>

C10_Witness ==
    /\ variant = "parallax"
    /\ last.op = "frame"
    /\ \A i \in 1 .. 3 : \E k \in Arcs : calls[k].layer = i
    /\ frames >= 2

(* C11: whenever no effect is mounted (none is active) no resize listener is
   registered: every listener a mount registered is gone after the unmount,
   however many mounts and unmounts there were. *)
C11_NoListenerLeftBehind ==
    (\A e \in Effects : eff[e].status # "active") => listeners = <<>>

(* C12: a mount that finds the canvas or its 2D context unavailable is a
   no-op in every variant: it does not throw, registers no listener and
   requests no frame. *)
C12_UnavailableSurfaceIsNoOp ==
    [][(last'.op = "mount" /\ last'.surface # "ok") =>
          /\ ~last'.threw
          /\ listeners' = listeners
          /\ rafQueue' = rafQueue
          /\ eff' = eff]_vars

(* C13: generation for a viewport of width or height zero does not throw and
   is clamped to a minimum viable field: every layer holds at least one star
   and the extents the surface is given are not degenerate. *)
C13_DegenerateViewportClamped ==
    (last.op \in {"mount", "resize"} /\ last.eff # 0
        /\ (innerWidth = 0 \/ innerHeight = 0)) =>
        /\ ~last.threw
        /\ \A i \in 1 .. Len(eff[last.eff].layers) :
             Len(eff[last.eff].layers[i].stars) >= 1
        /\ canvas.width >= 1
        /\ canvas.height >= 1

(* C14: in every state a frame can run from, the field is whole: every layer
   has its full configured length and, in the parallax variant, all layers'
   lists were made by the same call of createStars. *)
C14_FieldReplacedAtomically ==
    \A e \in Effects : (Pending(e) # {} /\ eff[e].status = "active") =>
        /\ eff[e].layers # <<>>
        /\ \A i \in 1 .. Len(eff[e].layers) :
             Len(eff[e].layers[i].stars) = ConfiguredCount(i)
        /\ variant = "parallax" =>
             \A i, j \in 1 .. Len(eff[e].layers) :
                 eff[e].layers[i].gen = eff[e].layers[j].gen

(* the second frame of a mount ran on a field regenerated after the first:
   the first star of the far layer has fallen one step only *)
C14_Witness ==
    /\ variant = "parallax"
    /\ last.op = "frame"
    /\ ~last.threw
    /\ eff[1].status = "active"
    /\ eff[1].t = 32
    /\ eff[1].layers[1].stars[1].y = LAYER_CONFIGS[1].speedY
    /\ eff[1].layers[3].gen = eff[1].layers[1].gen

Abs(v) == IF v < 0 THEN -v ELSE v

OutOfBand(a) == a < MinAlpha \/ a > MaxAlpha

(* C15: while frames keep running the rate of a star reverses again and
   again; a frame never changes the magnitude of the rate; the rate is never
   reversed by two consecutive frames and alpha is never outside its band
   after two consecutive frames. *)
C15_BrightnessBounces ==
    /\ []<>(probe.on /\ probe.flipped)
    /\ [][/\ Abs(Rate(probe'.star)) = Abs(Rate(probe.star))
          /\ ~(probe.flipped /\ probe'.flipped)
          /\ ~(OutOfBand(probe.star.alpha) /\ OutOfBand(probe'.star.alpha))]_vars

(* a star that came back from the lower edge of its band: the rate, which
   starts positive, was reversed a second time *)
C15_Witness ==
    /\ probe.on
    /\ probe.flipped
    /\ Rate(probe.star) > 0
    /\ probe.star.alpha <= MinAlpha

(* C16: a frame of the parallax variant adds the layer's speedY to every
   star's y; a star whose new y is above height + 10 goes to y = -10 with a
   new x in [0, width), any other star keeps its x; so after the frame
   -10 <= y <= height + 10 for the height the frame read. *)
C16_FallAndWrap ==
    [][(variant = "parallax" /\ last'.op = "frame" /\ ~last'.threw) =>
          \A i \in 1 .. Len(eff[last'.eff].layers) :
          \A j \in 1 .. Len(eff[last'.eff].layers[i].stars) :
             LET old == eff[last'.eff].layers[i].stars[j]
                 new == eff'[last'.eff].layers[i].stars[j]
                 y == old.y + eff[last'.eff].layers[i].speedY
             IN  /\ IF y > innerHeight * PX + 10 * PX
                    THEN new.y = -10 * PX /\ 0 <= new.x /\ new.x < innerWidth * PX
                    ELSE new.y = y /\ new.x = old.x
                 /\ -10 * PX <= new.y
                 /\ new.y <= innerHeight * PX + 10 * PX]_vars

(* a frame that wrapped one star and let another fall on *)
C16_Witness ==
    /\ variant = "parallax"
    /\ last.op = "frame"
    /\ ~last.threw
    /\ \E p \in StarsOf(last.eff) : p.star.y = -10 * PX
    /\ \E p \in StarsOf(last.eff) : p.star.y > 0

(* C17: a frame of the drifting variant adds (vx, vy) to every star's
   position and wraps it at the four edges of the viewport the frame read:
   after the frame 0 <= x <= width and 0 <= y <= height, and the star was
   painted at that position. *)
C17_DriftWrapsOnAllEdges ==
    [][(variant = "drift" /\ last'.op = "frame" /\ ~last'.threw) =>
          LET W == innerWidth * PX
              H == innerHeight * PX
              olds == eff[last'.eff].layers[1].stars
              news == eff'[last'.eff].layers[1].stars
          IN  /\ Len(news) = Len(olds)
              /\ \A j \in 1 .. Len(olds) :
                   LET x == olds[j].x + olds[j].vx
                       y == olds[j].y + olds[j].vy
                   IN  /\ news[j].x = IF x < 0 THEN W ELSE IF x > W THEN 0 ELSE x
                       /\ news[j].y = IF y < 0 THEN H ELSE IF y > H THEN 0 ELSE y
                       /\ 0 <= news[j].x /\ news[j].x <= W
                       /\ 0 <= news[j].y /\ news[j].y <= H
                       /\ calls'[j + 1].op = "arc"
                       /\ calls'[j + 1].x = news[j].x
                       /\ calls'[j + 1].y = news[j].y]_vars

(* a frame after which a star that left by the left and the top edge is
   back at the right and the bottom edge *)
C17_Witness ==
    /\ variant = "drift"
    /\ last.op = "frame"
    /\ ~last.threw
    /\ \E p \in StarsOf(last.eff) :
         /\ p.star.x = innerWidth * PX /\ p.star.vx < 0
         /\ p.star.y = innerHeight * PX /\ p.star.vy < 0

(* C18: a frame of the parallax variant applies the camera drift in the
   drawing transform only: each layer is painted under the translation
   drift * parallax of that layer alone, at the stars' stored positions,
   which the drift never enters; after the frame the context (transform,
   translation, saved states) is what it was before the frame. *)
C18_DriftAtPaintTimeOnly ==
    [][(variant = "parallax" /\ last'.op = "frame" /\ ~last'.threw) =>
          LET e == last'.eff
              bx == BaseParallaxX(eff'[e].t)
              by == BaseParallaxY(eff'[e].t)
          IN  /\ ctx' = ctx
              /\ ctx'.tx = 0 /\ ctx'.ty = 0 /\ ctx'.stack = <<>>
              /\ \A i \in 1 .. Len(eff[e].layers) :
                 \A j \in 1 .. Len(eff[e].layers[i].stars) :
                    LET old == eff[e].layers[i].stars[j]
                        new == eff'[e].layers[i].stars[j]
                        arc == calls'[1 + MaxStars * (i - 1) + j]
                    IN  /\ new.y = old.y + eff[e].layers[i].speedY \/ new.y = -10 * PX
                        /\ new.x = old.x \/ new.y = -10 * PX
                        /\ arc.op = "arc" /\ arc.layer = i
                        /\ arc.x = new.x /\ arc.y = new.y
                        /\ arc.tx = (bx * eff[e].layers[i].parallax) \div 10
                        /\ arc.ty = (by * eff[e].layers[i].parallax) \div 10]_vars

(* the second frame of a mount on a display of ratio 2: the layers were
   painted under three different translations and none is left *)
C18_Witness ==
    /\ variant = "parallax"
    /\ last.op = "frame"
    /\ ~last.threw
    /\ eff[last.eff].t = 32
    /\ ctx = [DefaultCtx EXCEPT !.a = 2]
    /\ \E k1, k2 \in Arcs : calls[k1].tx # 0 /\ calls[k2].tx # 0
                            /\ calls[k1].tx # calls[k2].tx

(* the places of the stars of effect e: <<layer, index in the layer>> *)
StarIndexes(e) ==
    UNION { {<<i, j>> : j \in 1 .. Len(eff[e].layers[i].stars)} :
            i \in 1 .. Len(eff[e].layers) }

(* C19: the first drawing call of a frame is the clear (drifting variant) or
   the background fill (parallax variant) of the rectangle (0, 0, width,
   height) the frame read, issued with no translation in effect; every call
   after it paints a star, so the clear is issued once and before any star. *)
C19_ClearOnceBeforeStars ==
    (last.op = "frame" /\ calls # <<>>) =>
        /\ calls[1].op = IF variant = "parallax" THEN "fillRect" ELSE "clearRect"
        /\ calls[1].w = innerWidth
        /\ calls[1].h = innerHeight
        /\ calls[1].tx = 0
        /\ calls[1].ty = 0
        /\ \A k \in 2 .. Len(calls) : calls[k].op = "arc"
        /\ ~last.threw => Len(calls) = 1 + Cardinality(StarIndexes(last.eff))

(* the second frame of a mount of the drifting variant, on a display of
   ratio 2: one clear, then the stars *)
C19_Witness ==
    /\ variant = "drift"
    /\ last.op = "frame"
    /\ ~last.threw
    /\ frames = 2
    /\ ctx.a = 2
    /\ calls[1].op = "clearRect"
    /\ Cardinality(Arcs) >= 2

(* C20: a mount starts from scratch, whatever ran before it: its clock is
   0, its field is a fresh generation for the viewport of the mount, its one
   pending frame callback was requested by this mount, and no callback of an
   earlier mount is pending. *)
C20_MountStartsAfresh ==
    [][(last'.op = "mount" /\ last'.eff # 0) =>
          LET e == last'.eff
          IN  /\ eff'[e].t = 0
              /\ eff'[e].layers # <<>>
              /\ \E s \in Streams :
                   eff'[e].layers = IF variant = "parallax"
                                    THEN CreateStarsParallax(eff'[e].layers, s)
                                    ELSE CreateStarsDrift(s)
              /\ rafQueue' = {[id |-> nextRafId, eff |-> e]}
              /\ \A cb \in rafQueue : cb.id < nextRafId
              /\ listeners' = <<e>>]_vars

(* the second mount, after the first one ran two frames and was unmounted *)
C20_Witness ==
    /\ last.op = "mount"
    /\ last.eff = 2
    /\ eff[1].status = "cleaned"
    /\ frames = 2
    /\ eff[2].t = 0
    /\ Pending(2) # {}

(* C21: the clock t of the parallax variant is 0 at mount, grows by 16 in
   every frame and is left alone by a resize, so that it is 16 times the
   number of frames run since the mount; the translation a frame paints a
   layer under is computed from t (and the layer's parallax) alone. *)
C21_ClockCountsFrames ==
    /\ []((variant = "parallax" /\ mounts = 1 /\ eff[1].status = "active")
             => eff[1].t = 16 * frames)
    /\ [][variant = "parallax" =>
            /\ last'.op = "frame" =>
                 /\ eff'[last'.eff].t = eff[last'.eff].t + 16
                 /\ \A k \in 1 .. Len(calls') : calls'[k].op = "arc" =>
                      /\ calls'[k].tx = (BaseParallaxX(eff'[last'.eff].t)
                                           * LAYER_CONFIGS[calls'[k].layer].parallax) \div 10
                      /\ calls'[k].ty = (BaseParallaxY(eff'[last'.eff].t)
                                           * LAYER_CONFIGS[calls'[k].layer].parallax) \div 10
            /\ last'.op = "resize" => eff'[last'.eff].t = eff[last'.eff].t
            /\ (last'.op = "mount" /\ last'.eff # 0) => eff'[last'.eff].t = 0
            /\ \A e \in Effects : eff'[e].t >= eff[e].t \/ eff'[e].status # "active"]_vars

(* a resize event after the second frame of a mount: the clock stays at 32 *)
C21_Witness ==
    /\ variant = "parallax"
    /\ last.op = "resize"
    /\ eff[last.eff].status = "active"
    /\ frames = 2
    /\ eff[last.eff].t = 32

(* C22: a resize event that finds the viewport and the ratio of the last
   run of resize() leaves the backing store, the CSS size and the transform
   as they were; the scale a resize sets is the ratio itself, whatever the
   scale before it. *)
C22_ResizeIdempotent ==
    [][last'.op = "resize" =>
          /\ ctx'.a = Dpr
          /\ ctx'.tx = 0 /\ ctx'.ty = 0
          /\ SurfaceCurrent =>
               /\ canvas' = canvas
               /\ ctx'.a = ctx.a]_vars

(* a resize event with the arguments of the run before it, on a display of
   ratio 2 *)
C22_Witness ==
    /\ last.op = "resize"
    /\ last.again
    /\ devicePixelRatio = 2
    /\ ctx.a = 2
    /\ canvas.width = 2 * innerWidth

(* C23: no step changes the number of layers of a mounted effect or a
   layer's speedY, parallax or blur; a frame changes no star's radius; and
   every star's radius is above 0 in every state. *)
C23_LayersStaticRadiusKept ==
    /\ [](\A e \in Effects : \A p \in StarsOf(e) : p.star.r > 0)
    /\ [][\A e \in Effects : (eff[e].status = "active" /\ eff'[e].status = "active") =>
            /\ Len(eff'[e].layers) = Len(eff[e].layers)
            /\ variant = "parallax" =>
                 \A i \in 1 .. Len(eff[e].layers) :
                    /\ eff'[e].layers[i].speedY = eff[e].layers[i].speedY
                    /\ eff'[e].layers[i].parallax = eff[e].layers[i].parallax
                    /\ eff'[e].layers[i].blur = eff[e].layers[i].blur
            /\ last'.op = "frame" =>
                 \A i \in 1 .. Len(eff[e].layers) :
                    /\ Len(eff'[e].layers[i].stars) = Len(eff[e].layers[i].stars)
                    /\ \A j \in 1 .. Len(eff[e].layers[i].stars) :
                         eff'[e].layers[i].stars[j].r = eff[e].layers[i].stars[j].r]_vars

(* the second frame of a mount of the parallax variant, holding a star of
   the smallest radius createStars can give *)
C23_Witness ==
    /\ variant = "parallax"
    /\ last.op = "frame"
    /\ ~last.threw
    /\ eff[last.eff].t = 32
    /\ Len(eff[last.eff].layers) = 3
    /\ \E p \in StarsOf(last.eff) : p.star.r = (300 * DepthFactor(1)) \div 10

(* C24: in the drifting and the parallax variant at most one frame callback
   is pending in every state; a mount leaves exactly one pending, a frame
   that runs to its end leaves exactly one, newly requested, and a resize
   event leaves the pending callbacks as they were. *)
C24_OneFramePending ==
    /\ [](Cardinality(rafQueue) <= 1)
    /\ [][/\ (last'.op = "mount" /\ last'.eff # 0) =>
               rafQueue' = {[id |-> nextRafId, eff |-> last'.eff]}
          /\ (last'.op = "frame" /\ ~last'.threw) =>
               /\ Cardinality(rafQueue) = 1
               /\ rafQueue' = {[id |-> nextRafId, eff |-> last'.eff]}
               /\ nextRafId' = nextRafId + 1
          /\ last'.op = "resize" =>
               /\ rafQueue' = rafQueue
               /\ nextRafId' = nextRafId]_vars

(* a resize event between the first frame and the second, each of which
   left one callback pending *)
C24_Witness ==
    /\ last.op = "frame"
    /\ ~last.threw
    /\ frames = 2
    /\ mounts = 1
    /\ nextRafId = 4
    /\ Cardinality(Pending(1)) = 1
    /\ variant = "parallax" => eff[1].layers[1].stars[1].y = LAYER_CONFIGS[1].speedY

----------------------------------------------------------------------------
(* The pages that send a check to the verification service: Page and
   HomePage (app/page.tsx) and Home (part_002).  The variable page holds the
   React state of the one that is mounted and the requests it has in flight,
   each with the values its closure captured and the await it is suspended
   at.  A handler runs from its start to its first await in one step and
   from one await to the next in one step; React applies the state updates
   of one step together. *)

sky == <<variant, innerWidth, innerHeight, devicePixelRatio, canvas, ctx,
         listeners, rafQueue, nextRafId, eff, mounts, calls, last, frames, probe>>

(* null or undefined, and a value that is neither *)
Null == <<>>
Some(v) == <<v>>

(* what a text input can hold: nothing, blanks, text *)
Texts == {"", " ", "x"}
Files == {Null, Some("photo.png")}

(* String.prototype.trim *)
Trim(s) == IF s = " " THEN "" ELSE s

(* how a fetch settles: it rejects, or resolves with a response whose
   status is in 200..299 or is not *)
FetchOutcomes == {"rejected", "ok", "notOk"}

(* the bodies a response can carry, and a body whose stream breaks *)
Bodies == {"<html>", "null", "{}", "{\"analysis\":\"{}\"}",
           "{\"detail\":\"quota\",\"error\":\"quota\"}"}
Aborted == "(connection lost)"
BodyOutcomes == Bodies \cup {Aborted}

NoFields == [analysis |-> Null, detail |-> Null, error |-> Null]

(* JSON.parse: it throws, or returns null or an object *)
JsonParse(text) ==
    CASE text = "null" -> [threw |-> FALSE, value |-> Null]
      [] text = "{}" -> [threw |-> FALSE, value |-> Some(NoFields)]
      [] text = "{\"analysis\":\"{}\"}" ->
            [threw |-> FALSE, value |-> Some([NoFields EXCEPT !.analysis = Some("{}")])]
      [] text = "{\"detail\":\"quota\",\"error\":\"quota\"}" ->
            [threw |-> FALSE, value |-> Some([NoFields EXCEPT !.detail = Some("quota"),
                                                              !.error = Some("quota")])]
      [] OTHER -> [threw |-> TRUE, value |-> Null]

(* the messages of the errors the runtime throws *)
FailedToFetch == "Failed to fetch"
UnexpectedToken == "Unexpected token"
NullProperty == "Cannot read properties of null"

(* Response.json(): the promise rejects when the stream breaks or the text
   is not JSON, with the message of the error *)
ReadJson(body) ==
    IF body = Aborted THEN [threw |-> TRUE, value |-> Null, message |-> FailedToFetch]
    ELSE [threw |-> JsonParse(body).threw, value |-> JsonParse(body).value,
          message |-> UnexpectedToken]

(* --- Page (app/page.tsx:39-461) --- *)

PageMounted ==
    [component |-> "Page",
     claim |-> "", quickUrl |-> "", quickLoading |-> FALSE,
     quickError |-> Null, quickResponse |-> Null, parsedQuick |-> Null,
     universalClaim |-> "", universalUrl |-> "", file |-> Null,
     universalLoading |-> FALSE, universalError |-> Null, universalResponse |-> Null,
     quickReq |-> Null, universalReq |-> Null]

parseAnalysisString(analysis) ==
    IF analysis = Null \/ JsonParse(analysis[1]).threw THEN Null
    ELSE JsonParse(analysis[1]).value

(* finally of handleQuickCheck, left out *)
QuickFinallySkipped(p) == [p EXCEPT !.quickReq = Null]

QuickFinally(p) == [p EXCEPT !.quickLoading = FALSE, !.quickReq = Null]

QuickCatch(p, message) == QuickFinally([p EXCEPT !.quickError = Some(message)])

(* handleQuickCheck keeping the error of the check before *)
handleQuickCheckKeepingError(p) ==
    LET cleared == [p EXCEPT !.quickResponse = Null, !.parsedQuick = Null]
    IN  IF Trim(p.claim) = "" /\ Trim(p.quickUrl) = ""
        THEN [cleared EXCEPT !.quickError = Some("Either 'claim' or 'url' must be provided.")]
        ELSE [cleared EXCEPT !.quickLoading = TRUE, !.quickReq = Some([at |-> "fetch"])]

(* handleQuickCheck up to its fetch *)
handleQuickCheck(p) ==
    LET cleared == [p EXCEPT !.quickError = Null, !.quickResponse = Null,
                             !.parsedQuick = Null]
    IN  IF Trim(p.claim) = "" /\ Trim(p.quickUrl) = ""
        THEN [cleared EXCEPT !.quickError = Some("Either 'claim' or 'url' must be provided.")]
        ELSE [cleared EXCEPT !.quickLoading = TRUE, !.quickReq = Some([at |-> "fetch"])]

(* handleQuickCheck from the fetch that settled to the body it reads *)
QuickFetched(p, outcome) ==
    CASE outcome = "rejected" -> QuickCatch(p, FailedToFetch)
          [] outcome = "notOk" -> [p EXCEPT !.quickReq = Some([at |-> "text"])]
          [] outcome = "ok" -> [p EXCEPT !.quickReq = Some([at |-> "json"])]

(* handleQuickCheck from the body that was read to its end *)
QuickBodyRead(p, body) ==
    LET data == ReadJson(body)
    IN  IF p.quickReq[1].at = "text"
        THEN QuickCatch(p, IF body = Aborted THEN FailedToFetch ELSE "Verify failed")
        ELSE IF data.threw THEN QuickCatch(p, data.message)
        ELSE IF data.value = Null
             THEN QuickCatch([p EXCEPT !.quickResponse = Null], NullProperty)
        ELSE QuickFinally([p EXCEPT !.quickResponse = data.value,
                                    !.parsedQuick =
                                        IF parseAnalysisString(data.value[1].analysis) # Null
                                        THEN parseAnalysisString(data.value[1].analysis)
                                        ELSE @])

UniversalFinally(p) == [p EXCEPT !.universalLoading = FALSE, !.universalReq = Null]

UniversalCatch(p, message) == UniversalFinally([p EXCEPT !.universalError = Some(message)])

(* handleUniversalCheck up to its fetch *)
handleUniversalCheck(p) ==
    LET cleared == [p EXCEPT !.universalError = Null, !.universalResponse = Null]
    IN  IF Trim(p.universalClaim) = "" /\ Trim(p.universalUrl) = "" /\ p.file = Null
        THEN [cleared EXCEPT !.universalError =
                  Some("Provide a claim, URL, or upload a file to run Universal Check.")]
        ELSE [cleared EXCEPT !.universalLoading = TRUE,
                             !.universalReq = Some([at |-> "fetch"])]

UniversalFetched(p, outcome) ==
    CASE outcome = "rejected" -> UniversalCatch(p, FailedToFetch)
          [] outcome = "notOk" -> [p EXCEPT !.universalReq = Some([at |-> "text"])]
          [] outcome = "ok" -> [p EXCEPT !.universalReq = Some([at |-> "json"])]

UniversalBodyRead(p, body) ==
    LET data == ReadJson(body)
    IN  IF p.universalReq[1].at = "text"
        THEN UniversalCatch(p, IF body = Aborted THEN FailedToFetch
                               ELSE "Universal check failed")
        ELSE IF data.threw THEN UniversalCatch(p, data.message)
        ELSE UniversalFinally([p EXCEPT !.universalResponse = data.value])

(* --- HomePage (app/page.tsx:489-948) --- *)

(* resultMode records the mode that the request behind result was
   submitted in; it is not state of the component *)
HomePageMounted ==
    [component |-> "HomePage",
     mode |-> "claim", claim |-> "", file |-> Null, previewUrl |-> Null,
     loading |-> FALSE, error |-> Null, result |-> Null,
     req |-> Null, resultMode |-> Null]

handleModeChange(p, newMode) ==
    [p EXCEPT !.mode = newMode, !.error = Null, !.result = Null, !.resultMode = Null,
              !.file = Null, !.previewUrl = Null]

handleFileChange(p, selected) ==
    [p EXCEPT !.file = selected, !.result = Null, !.resultMode = Null, !.error = Null,
              !.previewUrl = IF selected # Null THEN Some("blob:preview") ELSE Null]

(* the Clear button next to the chosen file *)
ClearFile(p) ==
    [p EXCEPT !.file = Null, !.previewUrl = Null, !.result = Null, !.resultMode = Null]

(* finally of handleSubmit, left out *)
SubmitFinallySkipped(p) == [p EXCEPT !.req = Null]

SubmitFinally(p) == [p EXCEPT !.loading = FALSE, !.req = Null]

SubmitCatch(p, message) ==
    SubmitFinally([p EXCEPT !.error =
        Some(IF message # "" THEN message
             ELSE "Something went wrong talking to Reality Check API. Please try again.")])

(* handleSubmit up to its fetch; the early returns leave through finally *)
handleSubmit(p) ==
    LET cleared == [p EXCEPT !.error = Null, !.result = Null, !.resultMode = Null,
                             !.loading = TRUE]
    IN  IF p.mode = "claim"
        THEN IF Trim(p.claim) = ""
             THEN SubmitFinally([cleared EXCEPT !.error = Some("Please enter a claim to check.")])
             ELSE [cleared EXCEPT !.req = Some([at |-> "fetch", mode |-> "claim"])]
        ELSE IF p.file = Null
             THEN SubmitFinally([cleared EXCEPT !.error =
                                     Some("Please upload an image or video file.")])
             ELSE [cleared EXCEPT !.req = Some([at |-> "fetch", mode |-> "media"])]

SubmitFetched(p, outcome) ==
    CASE outcome = "rejected" -> SubmitCatch(p, FailedToFetch)
          [] outcome = "notOk" -> [p EXCEPT !.req[1].at = "text"]
          [] outcome = "ok" -> [p EXCEPT !.req[1].at = "json"]

SubmitBodyRead(p, body) ==
    LET data == ReadJson(body)
    IN  IF p.req[1].at = "text"
        THEN SubmitCatch(p, IF body = Aborted THEN FailedToFetch
                            ELSE IF p.req[1].mode = "claim"
                                 THEN "Backend returned an error for claim check."
                                 ELSE "Backend returned an error for media check.")
        ELSE IF data.threw THEN SubmitCatch(p, data.message)
        ELSE SubmitFinally([p EXCEPT !.result = data.value,
                                     !.resultMode = IF data.value # Null
                                                    THEN Some(p.req[1].mode) ELSE Null])

(* --- Home (part_002:102-760) --- *)

HistoryLimit == 5

(* a slice that keeps one entry too many *)
SliceInclusive(s, n) == SubSeq(s, 1, IF Len(s) < n + 1 THEN Len(s) ELSE n + 1)

(* Array.prototype.slice(0, n) *)
Slice(s, n) == SubSeq(s, 1, IF Len(s) < n THEN Len(s) ELSE n)

(* now is Date.now(), requests the number of requests sent so far *)
HomeMounted ==
    [component |-> "Home",
     inputText |-> "", inputUrl |-> "", loading |-> FALSE,
     verifyError |-> "", verifyResult |-> Null, quickHistory |-> <<>>,
     deepMode |-> FALSE, universalText |-> "", universalUrl |-> "",
     universalFile |-> Null, universalLoading |-> FALSE,
     universalError |-> "", universalResult |-> Null, universalHistory |-> <<>>,
     verifyReq |-> Null, universalReq |-> Null,
     now |-> 1, requests |-> 0]

(* the message the catch blocks of Home show for an error *)
Shown(message) ==
    IF message = FailedToFetch
    THEN "Cannot reach Reality Check API. Is the backend running?"
    ELSE IF message # "" THEN message ELSE "Something went wrong."

VerifyFinally(p) == [p EXCEPT !.loading = FALSE, !.verifyReq = Null]

VerifyCatch(p, message) == VerifyFinally([p EXCEPT !.verifyError = Shown(message)])

(* runVerify up to its fetch *)
runVerify(p) ==
    LET cleared == [p EXCEPT !.verifyError = "", !.verifyResult = Null]
    IN  IF p.inputText = "" /\ p.inputUrl = ""
        THEN [cleared EXCEPT !.verifyError = "Enter a claim or a URL to verify."]
        ELSE [cleared EXCEPT !.loading = TRUE,
                             !.verifyReq = Some([at |-> "fetch", ok |-> TRUE,
                                                 inputText |-> p.inputText,
                                                 inputUrl |-> p.inputUrl]),
                             !.requests = @ + 1]

VerifyFetched(p, outcome) ==
    CASE outcome = "rejected" -> VerifyCatch(p, FailedToFetch)
          [] outcome = "notOk" -> [p EXCEPT !.verifyReq[1].at = "json", !.verifyReq[1].ok = FALSE]
          [] outcome = "ok" -> [p EXCEPT !.verifyReq[1].at = "json"]

VerifyBodyRead(p, body) ==
    LET r == p.verifyReq[1]
        data == ReadJson(body)
        detail == IF data.threw THEN Some(NoFields) ELSE data.value
        item == [inputText |-> r.inputText, inputUrl |-> r.inputUrl,
                 result |-> data.value, ts |-> p.now]
    IN  IF ~r.ok
        THEN IF detail = Null THEN VerifyCatch(p, NullProperty)
             ELSE IF detail[1].detail # Null /\ detail[1].detail # Some("")
                  THEN VerifyCatch(p, detail[1].detail[1])
             ELSE VerifyCatch(p, "Verification failed.")
        ELSE IF data.threw THEN VerifyCatch(p, data.message)
        ELSE VerifyFinally([p EXCEPT !.verifyResult = data.value,
                                     !.quickHistory = Slice(<<item>> \o @, HistoryLimit),
                                     !.now = @ + 1])

RunUniversalFinally(p) == [p EXCEPT !.universalLoading = FALSE, !.universalReq = Null]

RunUniversalCatch(p, message) ==
    RunUniversalFinally([p EXCEPT !.universalError = Shown(message)])

(* runUniversal up to its fetch *)
runUniversal(p) ==
    LET cleared == [p EXCEPT !.universalError = "", !.universalResult = Null]
    IN  IF p.universalText = "" /\ p.universalUrl = "" /\ p.universalFile = Null
        THEN [cleared EXCEPT !.universalError = "Provide text, URL, or upload an image/video."]
        ELSE [cleared EXCEPT !.universalLoading = TRUE,
                             !.universalReq =
                                 Some([at |-> "fetch", ok |-> TRUE,
                                       inputText |-> p.universalText,
                                       inputUrl |-> p.universalUrl,
                                       fileName |-> p.universalFile,
                                       mode |-> IF p.deepMode THEN "deep" ELSE "standard"]),
                             !.requests = @ + 1]

RunUniversalFetched(p, outcome) ==
    CASE outcome = "rejected" -> RunUniversalCatch(p, FailedToFetch)
          [] outcome = "notOk" -> [p EXCEPT !.universalReq[1].at = "json",
                                            !.universalReq[1].ok = FALSE]
          [] outcome = "ok" -> [p EXCEPT !.universalReq[1].at = "json"]

RunUniversalBodyRead(p, body) ==
    LET r == p.universalReq[1]
        data == ReadJson(body)
        item == [inputText |-> r.inputText, inputUrl |-> r.inputUrl,
                 fileName |-> r.fileName, mode |-> r.mode,
                 result |-> data.value, ts |-> p.now]
    IN  IF data.threw THEN RunUniversalCatch(p, data.message)
        ELSE IF ~r.ok
             THEN IF data.value = Null THEN RunUniversalCatch(p, NullProperty)
                  ELSE IF data.value[1].error # Null /\ data.value[1].error # Some("")
                       THEN RunUniversalCatch(p, data.value[1].error[1])
                  ELSE RunUniversalCatch(p, "Universal check failed.")
        ELSE RunUniversalFinally([p EXCEPT !.universalResult = data.value,
                                           !.universalHistory =
                                               Slice(<<item>> \o @, HistoryLimit),
                                           !.now = @ + 1])

(* the buttons of the two histories *)
SelectQuick(p, i) ==
    [p EXCEPT !.verifyResult = p.quickHistory[i].result]

ClearQuick(p) ==
    [p EXCEPT !.quickHistory = <<>>, !.verifyResult = Null]

SelectUniversal(p, i) ==
    [p EXCEPT !.universalResult = p.universalHistory[i].result]

ClearUniversal(p) ==
    [p EXCEPT !.universalHistory = <<>>, !.universalResult = Null]

(* --- the steps of the pages --- *)

MaxRequests == 1
MaxHistoryRequests == 6

TextFields ==
    [Page |-> {"claim", "quickUrl", "universalClaim", "universalUrl"},
     HomePage |-> {"claim"},
     Home |-> {"inputText", "inputUrl", "universalText", "universalUrl"}]

(* onChange of a text input; HomePage shows its textarea in claim mode;
   the inputs of Home, which does not trim, hold nothing or text *)
TypeIn(fields) ==
    /\ page.component \in DOMAIN TextFields
    /\ page.component = "HomePage" => page.mode = "claim"
    /\ \E f \in TextFields[page.component] \cap fields,
          v \in IF page.component = "Home" THEN {"", "x"} ELSE Texts :
         page' = [page EXCEPT ![f] = v]
    /\ UNCHANGED sky

(* onChange of the file input of Page and of Home *)
ChooseFile ==
    /\ page.component \in {"Page", "Home"}
    /\ \E f \in Files :
         page' = IF page.component = "Page"
                 THEN [page EXCEPT !.file = f]
                 ELSE [page EXCEPT !.universalFile = f]
    /\ UNCHANGED sky

(* every button that starts a request is disabled while its loading flag
   is set (page.tsx:278, 404, 853; part_002:299, 491) *)
QuickCheckClick ==
    /\ page.component = "Page"
    /\ ~page.quickLoading
    /\ page' = handleQuickCheck(page)
    /\ UNCHANGED sky

QuickCheckSettles ==
    /\ page.component = "Page"
    /\ page.quickReq # Null
    /\ \/ /\ page.quickReq[1].at = "fetch"
          /\ \E outcome \in FetchOutcomes : page' = QuickFetched(page, outcome)
       \/ /\ page.quickReq[1].at # "fetch"
          /\ \E body \in BodyOutcomes : page' = QuickBodyRead(page, body)
    /\ UNCHANGED sky

UniversalCheckClick ==
    /\ page.component = "Page"
    /\ ~page.universalLoading
    /\ page' = handleUniversalCheck(page)
    /\ UNCHANGED sky

UniversalCheckSettles ==
    /\ page.component = "Page"
    /\ page.universalReq # Null
    /\ \/ /\ page.universalReq[1].at = "fetch"
          /\ \E outcome \in FetchOutcomes : page' = UniversalFetched(page, outcome)
       \/ /\ page.universalReq[1].at # "fetch"
          /\ \E body \in BodyOutcomes : page' = UniversalBodyRead(page, body)
    /\ UNCHANGED sky

ModeChange ==
    /\ page.component = "HomePage"
    /\ \E newMode \in {"claim", "media"} : page' = handleModeChange(page, newMode)
    /\ UNCHANGED sky

(* HomePage shows its file input, and the Clear button of a chosen file,
   in media mode *)
FileChange ==
    /\ page.component = "HomePage"
    /\ page.mode = "media"
    /\ \E selected \in Files : page' = handleFileChange(page, selected)
    /\ UNCHANGED sky

ClearFileClick ==
    /\ page.component = "HomePage"
    /\ page.mode = "media"
    /\ page.file # Null
    /\ page' = ClearFile(page)
    /\ UNCHANGED sky

SubmitClick ==
    /\ page.component = "HomePage"
    /\ ~page.loading
    /\ page' = handleSubmit(page)
    /\ UNCHANGED sky

SubmitSettles ==
    /\ page.component = "HomePage"
    /\ page.req # Null
    /\ \/ /\ page.req[1].at = "fetch"
          /\ \E outcome \in FetchOutcomes : page' = SubmitFetched(page, outcome)
       \/ /\ page.req[1].at # "fetch"
          /\ \E body \in BodyOutcomes : page' = SubmitBodyRead(page, body)
    /\ UNCHANGED sky

ToggleDeep ==
    /\ page.component = "Home"
    /\ page' = [page EXCEPT !.deepMode = ~@]
    /\ UNCHANGED sky

RunVerifyClick(limit) ==
    /\ page.component = "Home"
    /\ ~page.loading
    /\ runVerify(page).requests <= limit
    /\ page' = runVerify(page)
    /\ UNCHANGED sky

VerifySettles(bodies) ==
    /\ page.component = "Home"
    /\ page.verifyReq # Null
    /\ \/ /\ page.verifyReq[1].at = "fetch"
          /\ \E outcome \in FetchOutcomes : page' = VerifyFetched(page, outcome)
       \/ /\ page.verifyReq[1].at # "fetch"
          /\ \E body \in bodies : page' = VerifyBodyRead(page, body)
    /\ UNCHANGED sky

RunUniversalClick(limit) ==
    /\ page.component = "Home"
    /\ ~page.universalLoading
    /\ runUniversal(page).requests <= limit
    /\ page' = runUniversal(page)
    /\ UNCHANGED sky

RunUniversalSettles(bodies) ==
    /\ page.component = "Home"
    /\ page.universalReq # Null
    /\ \/ /\ page.universalReq[1].at = "fetch"
          /\ \E outcome \in FetchOutcomes : page' = RunUniversalFetched(page, outcome)
       \/ /\ page.universalReq[1].at # "fetch"
          /\ \E body \in bodies : page' = RunUniversalBodyRead(page, body)
    /\ UNCHANGED sky

(* the histories are shown, with their buttons, when they are not empty *)
SelectQuickClick ==
    /\ page.component = "Home"
    /\ \E i \in 1 .. Len(page.quickHistory) : page' = SelectQuick(page, i)
    /\ UNCHANGED sky

ClearQuickClick ==
    /\ page.component = "Home"
    /\ page.quickHistory # <<>>
    /\ page' = ClearQuick(page)
    /\ UNCHANGED sky

SelectUniversalClick ==
    /\ page.component = "Home"
    /\ \E i \in 1 .. Len(page.universalHistory) : page' = SelectUniversal(page, i)
    /\ UNCHANGED sky

ClearUniversalClick ==
    /\ page.component = "Home"
    /\ page.universalHistory # <<>>
    /\ page' = ClearUniversal(page)
    /\ UNCHANGED sky

(* the answers to Home: a body that is not JSON, null, an object that
   tells what went wrong, and a body whose stream breaks *)
HomeBodies == {"<html>", "null", "{\"detail\":\"quota\",\"error\":\"quota\"}", Aborted}

(* no starfield is mounted next to the page *)
InitForms ==
    /\ variant = "parallax"
    /\ innerWidth = 800
    /\ innerHeight = 600
    /\ devicePixelRatio = 1
    /\ canvas = DefaultCanvas
    /\ ctx = DefaultCtx
    /\ listeners = <<>>
    /\ rafQueue = {}
    /\ nextRafId = 1
    /\ eff = [e \in 1 .. MaxMounts |-> BlankEffect]
    /\ mounts = 0
    /\ calls = <<>>
    /\ last = Other
    /\ frames = 0
    /\ probe = NoProbe
    /\ page \in {PageMounted, HomePageMounted, HomeMounted}

NextForms ==
    \/ TypeIn(TextFields.Page \cup TextFields.HomePage \cup TextFields.Home)
    \/ ChooseFile
    \/ QuickCheckClick
    \/ QuickCheckSettles
    \/ UniversalCheckClick
    \/ UniversalCheckSettles
    \/ ModeChange
    \/ FileChange
    \/ ClearFileClick
    \/ SubmitClick
    \/ SubmitSettles
    \/ ToggleDeep
    \/ RunVerifyClick(MaxRequests)
    \/ VerifySettles(HomeBodies)
    \/ RunUniversalClick(MaxRequests)
    \/ RunUniversalSettles(HomeBodies)
    \/ SelectQuickClick
    \/ ClearQuickClick
    \/ SelectUniversalClick
    \/ ClearUniversalClick

SpecForms == InitForms /\ [][NextForms]_vars

(* The pages when every fetch, and every read of a body, settles.  The
   user of Home types in the two text inputs and chooses files *)
NextLoading ==
    \/ TypeIn(TextFields.Page \cup TextFields.HomePage \cup {"inputText", "universalText"})
    \/ ChooseFile
    \/ QuickCheckClick
    \/ QuickCheckSettles
    \/ UniversalCheckClick
    \/ UniversalCheckSettles
    \/ ModeChange
    \/ FileChange
    \/ ClearFileClick
    \/ SubmitClick
    \/ SubmitSettles
    \/ RunVerifyClick(MaxRequests)
    \/ VerifySettles(HomeBodies)
    \/ RunUniversalClick(MaxRequests)
    \/ RunUniversalSettles(HomeBodies)
    \/ SelectQuickClick
    \/ ClearQuickClick
    \/ SelectUniversalClick
    \/ ClearUniversalClick

SpecLoading ==
    /\ InitForms
    /\ [][NextLoading]_vars
    /\ WF_vars(QuickCheckSettles)
    /\ WF_vars(UniversalCheckSettles)
    /\ WF_vars(SubmitSettles)
    /\ WF_vars(VerifySettles(HomeBodies))
    /\ WF_vars(RunUniversalSettles(HomeBodies))

(* Home alone, through enough requests to fill a history and push entries
   out of it: the user types in the two text inputs, and the service
   answers with an empty object or with a body that is not JSON *)
HistoryBodies == {"<html>", "{}"}

InitHistory ==
    /\ InitForms
    /\ page = HomeMounted

NextHistory ==
    \/ TypeIn({"inputText", "universalText"})
    \/ RunVerifyClick(MaxHistoryRequests)
    \/ VerifySettles(HistoryBodies)
    \/ RunUniversalClick(MaxHistoryRequests)
    \/ RunUniversalSettles(HistoryBodies)
    \/ SelectQuickClick
    \/ ClearQuickClick
    \/ SelectUniversalClick
    \/ ClearUniversalClick

SpecHistory == InitHistory /\ [][NextHistory]_vars

----------------------------------------------------------------------------
(* C25: when every fetch and every read of a body settles, each of
   handleQuickCheck, handleUniversalCheck, handleSubmit, runVerify and
   runUniversal that has set its loading flag clears it again, whichever
   way the request ends; and in every state a loading flag is set exactly
   when a request of its handler is in flight. *)
C25_LoadingEnds ==
    LET QuickLoading == page.component = "Page" /\ page.quickLoading
        QuickInFlight == page.component = "Page" /\ page.quickReq # Null
        UniversalLoading == page.component = "Page" /\ page.universalLoading
        UniversalInFlight == page.component = "Page" /\ page.universalReq # Null
        SubmitLoading == page.component = "HomePage" /\ page.loading
        SubmitInFlight == page.component = "HomePage" /\ page.req # Null
        VerifyLoading == page.component = "Home" /\ page.loading
        VerifyInFlight == page.component = "Home" /\ page.verifyReq # Null
        RunUniversalLoading == page.component = "Home" /\ page.universalLoading
        RunUniversalInFlight == page.component = "Home" /\ page.universalReq # Null
    IN  /\ [](/\ QuickLoading <=> QuickInFlight
              /\ UniversalLoading <=> UniversalInFlight
              /\ SubmitLoading <=> SubmitInFlight
              /\ VerifyLoading <=> VerifyInFlight
              /\ RunUniversalLoading <=> RunUniversalInFlight)
        /\ QuickLoading ~> ~QuickLoading
        /\ UniversalLoading ~> ~UniversalLoading
        /\ SubmitLoading ~> ~SubmitLoading
        /\ VerifyLoading ~> ~VerifyLoading
        /\ RunUniversalLoading ~> ~RunUniversalLoading

(* a quick check whose answer was not JSON has ended, while a universal
   check of the same page is still waiting for its answer *)
C25_Witness ==
    /\ page.component = "Page"
    /\ page.quickError = Some(UnexpectedToken)
    /\ ~page.quickLoading
    /\ page.universalLoading
    /\ page.universalReq = Some([at |-> "fetch"])

(* C26: in every state of Page, quickError and quickResponse are not both
   set, parsedQuick is set only when quickResponse is, and universalError
   and universalResponse are not both set. *)
C26_ErrorOrResponse ==
    page.component = "Page" =>
        /\ ~(page.quickError # Null /\ page.quickResponse # Null)
        /\ page.parsedQuick # Null => page.quickResponse # Null
        /\ ~(page.universalError # Null /\ page.universalResponse # Null)

(* a quick check that failed was followed by one that was answered with an
   analysis that parses, and a universal check has failed *)
C26_Witness ==
    /\ page.component = "Page"
    /\ page.quickResponse # Null
    /\ page.parsedQuick = Some(NoFields)
    /\ page.quickError = Null
    /\ page.universalError = Some(FailedToFetch)
    /\ page.universalResponse = Null

(* C27: in every state of HomePage, a result that is set was answered to a
   request that was submitted in the mode that is selected now. *)
C27_ResultOfSelectedMode ==
    (page.component = "HomePage" /\ page.result # Null) =>
        page.resultMode = Some(page.mode)

(* C28: a handler that runs while every input of its check is empty leaves
   no request in flight, sets its validation message, leaves the result of
   the check cleared and leaves the loading flag of the check unset. *)
C28_EmptyInputsRejected ==
    [][/\ ( /\ page.component = "Page"
            /\ ~page.quickLoading
            /\ page.claim = "" /\ page.quickUrl = ""
            /\ page' = handleQuickCheck(page) ) =>
               /\ page'.quickReq = Null
               /\ page'.quickError = Some("Either 'claim' or 'url' must be provided.")
               /\ page'.quickResponse = Null /\ page'.parsedQuick = Null
               /\ ~page'.quickLoading
       /\ ( /\ page.component = "Page"
            /\ ~page.universalLoading
            /\ page.universalClaim = "" /\ page.universalUrl = "" /\ page.file = Null
            /\ page' = handleUniversalCheck(page) ) =>
               /\ page'.universalReq = Null
               /\ page'.universalError =
                      Some("Provide a claim, URL, or upload a file to run Universal Check.")
               /\ page'.universalResponse = Null
               /\ ~page'.universalLoading
       /\ ( /\ page.component = "HomePage"
            /\ ~page.loading
            /\ \/ page.mode = "claim" /\ page.claim = ""
               \/ page.mode = "media" /\ page.file = Null
            /\ page' = handleSubmit(page) ) =>
               /\ page'.req = Null
               /\ page'.error = Some(IF page.mode = "claim"
                                     THEN "Please enter a claim to check."
                                     ELSE "Please upload an image or video file.")
               /\ page'.result = Null
               /\ ~page'.loading
       /\ ( /\ page.component = "Home"
            /\ ~page.loading
            /\ page.inputText = "" /\ page.inputUrl = ""
            /\ page' = runVerify(page) ) =>
               /\ page'.verifyReq = Null
               /\ page'.requests = page.requests
               /\ page'.verifyError = "Enter a claim or a URL to verify."
               /\ page'.verifyResult = Null
               /\ ~page'.loading
       /\ ( /\ page.component = "Home"
            /\ ~page.universalLoading
            /\ page.universalText = "" /\ page.universalUrl = ""
            /\ page.universalFile = Null
            /\ page' = runUniversal(page) ) =>
               /\ page'.universalReq = Null
               /\ page'.requests = page.requests
               /\ page'.universalError = "Provide text, URL, or upload an image/video."
               /\ page'.universalResult = Null
               /\ ~page'.universalLoading]_vars

(* HomePage in media mode after a submit without a file, with a claim still
   in the textarea of the other mode *)
C28_Witness ==
    /\ page.component = "HomePage"
    /\ page.mode = "media"
    /\ page.file = Null
    /\ page.claim = "x"
    /\ page.error = Some("Please upload an image or video file.")
    /\ page.result = Null
    /\ page.req = Null
    /\ ~page.loading

(* C29: in every state each history of Home holds at most five entries,
   the later stamped before the earlier; a history changes only when a
   request of its check is answered, which puts the new entry first and
   drops the sixth, or when Clear empties it together with the result
   shown; a request that is refused or fails leaves it alone, and choosing
   an entry changes the result shown and nothing else. *)
C29_HistoryBounded ==
    /\ [](/\ Len(page.quickHistory) <= 5
          /\ Len(page.universalHistory) <= 5
          /\ \A i \in 1 .. Len(page.quickHistory) - 1 :
                page.quickHistory[i].ts > page.quickHistory[i + 1].ts
          /\ \A i \in 1 .. Len(page.universalHistory) - 1 :
                page.universalHistory[i].ts > page.universalHistory[i + 1].ts)
    /\ [][LET HistoryStep(h, result, req, err) ==
                  h' # h =>
                      \/ /\ req # Null /\ req' = Null
                         /\ err' = ""
                         /\ Len(h') = (IF Len(h) < 5 THEN Len(h) + 1 ELSE 5)
                         /\ h'[1].ts = page.now
                         /\ h'[1].inputText = req[1].inputText
                         /\ result' = h'[1].result
                         /\ \A i \in 2 .. Len(h') : h'[i] = h[i - 1]
                      \/ /\ h' = <<>>
                         /\ result' = Null
                         /\ req' = req
          IN
          /\ HistoryStep(page.quickHistory, page.verifyResult, page.verifyReq,
                         page.verifyError)
          /\ HistoryStep(page.universalHistory, page.universalResult, page.universalReq,
                         page.universalError)
          /\ (page.verifyError' # "" /\ page.verifyError = "") =>
                 page.quickHistory' = page.quickHistory
          /\ (page.universalError' # "" /\ page.universalError = "") =>
                 page.universalHistory' = page.universalHistory
          /\ \A i \in 1 .. Len(page.quickHistory) :
                page' = SelectQuick(page, i) =>
                    /\ page'.verifyResult = page.quickHistory[i].result
                    /\ [page' EXCEPT !.verifyResult = page.verifyResult] = page
          /\ \A i \in 1 .. Len(page.universalHistory) :
                page' = SelectUniversal(page, i) =>
                    /\ page'.universalResult = page.universalHistory[i].result
                    /\ [page' EXCEPT !.universalResult = page.universalResult] = page]_vars

(* the sixth quick check answered: its entry is first and the entry of the
   first check is gone; the result shown was chosen from the history after
   a refused check had cleared it *)
C29_Witness ==
    /\ Len(page.quickHistory) = 5
    /\ page.quickHistory[1].ts = 6
    /\ page.quickHistory[5].ts = 2
    /\ page.requests = 6
    /\ page.verifyError = "Enter a claim or a URL to verify."
    /\ page.verifyResult = page.quickHistory[3].result

====
